---- MODULE Spec2Model ----
(***************************************************************************)
(* Model of DataUtility.tool.Tool.get_executions_from_bybit                *)
(* (src/DataUtility/tool.py): the fetch loop, the DataFrame normalisation, *)
(* the backward position reconstruction, the search for the accounting     *)
(* base (flat or flip point), the forward average-cost fold and the final  *)
(* cumulative / balance columns restricted to the requested window.        *)
(*                                                                         *)
(* Python floats are modelled as exact rationals [n, d] in lowest terms;   *)
(* floating-point rounding is outside the model.  Indices keep the         *)
(* source's 0-based values (pre_idx, base_idx, i); sequences are 1-based,  *)
(* so row k of the source is element k + 1 here.                           *)
(***************************************************************************)
EXTENDS Integers, Sequences, FiniteSets, TLC

\* ------------------------------------------------------------------ bounds
\* rows the fetch loop collects
MaxExecs == 2
\* iterations of the ledger loop followed on freely chosen rows
MaxFold == 3

\* --------------------------------------------------------------- rationals
Abs(x) == IF x < 0 THEN -x ELSE x

RECURSIVE GCD(_, _)
GCD(a, b) == IF b = 0 THEN a ELSE GCD(b, a % b)

\* n / d in lowest terms with a positive denominator (d # 0)
Q(n, d) ==
    LET g == GCD(Abs(n), Abs(d))
        s == IF d < 0 THEN -1 ELSE 1
    IN  [n |-> (s * n) \div g, d |-> (s * d) \div g]

ToQ(x) == [n |-> x, d |-> 1]
QZero == ToQ(0)
QAdd(a, b) == Q(a.n * b.d + b.n * a.d, a.d * b.d)
QNeg(a) == [n |-> -a.n, d |-> a.d]
QSub(a, b) == QAdd(a, QNeg(b))
QMul(a, b) == Q(a.n * b.n, a.d * b.d)
QDiv(a, b) == Q(a.n * b.d, a.d * b.n)
QAbs(a) == [n |-> Abs(a.n), d |-> a.d]

\* ------------------------------------------------------------------ inputs
\* One row of the API's trade_list, reduced to the columns the code reads.
Exec(id, t, ty, sd, pr, qty, val, fee) ==
    [exec_id |-> id, exec_time |-> t, exec_type |-> ty, side |-> sd,
     exec_price |-> pr, exec_qty |-> qty, exec_value |-> val, exec_fee |-> fee]

\* the default of parameter buffer_days, and the seconds of one day
DefaultBufferDays == 7
DaySeconds == 86400

\* sample values of the whole-program specification
Times == {0, 1}
Qtys == {1, 2}
Values == {1, 2}
Fees == {0, 1}

\* Rows private_execution_list can return for the request of line 1177 once
\* the rows `seen` were fetched: a new execution (fresh exec_id) or, from an
\* overlapping page, a row fetched before; the API returns the executions at
\* or after the requested start_time only.
ApiRows(seen, start_time) ==
    LET ids == {seen[k].exec_id : k \in 1..Len(seen)}
        next == IF ids = {} THEN 1 ELSE 1 + CHOOSE m \in ids : \A x \in ids : x <= m
        times == {t \in Times : t >= start_time}
        fresh == {Exec(next, t, "Funding", "Buy", 1, 1, 1, fee) :
                      t \in times, fee \in Fees}
                 \cup
                 {Exec(next, t, "Trade", sd, 1, qty, val, fee) :
                      t \in times, sd \in {"Buy", "Sell"},
                      qty \in Qtys, val \in Values, fee \in Fees}
    IN  fresh \cup {seen[k] : k \in 1..Len(seen)}

\* private_position_list: signed size and wallet balance
CurSizes == {-2, -1, 0, 1, 2}
Balances == {5}

VARIABLES
    pc,         \* position in get_executions_from_bybit
    from_ut,    \* parameter from_ut
    buffer_days, \* parameter buffer_days
    lst_execs,  \* rows fetched so far
    df_execs,   \* the DataFrame of executions
    cur_size, cur_bal,
    calc_pos,   \* backward-reconstructed position before each row
    pre_idx, base_idx, base_pos, base_avr,
    i,          \* number of rows folded
    sum_size, avr_cost, exec_pl, exec_fee, pl,
    row,        \* the row read by the last fold iteration
    pre,        \* sum_size and avr_cost before the last fold iteration
    lst,        \* lst_sum_size, lst_avr_cost, lst_exec_pl, lst_exec_fee, lst_pl
    start_bal,
    ledger,     \* df_execs with the computed columns, before the window filter
    result,     \* the returned DataFrame rows
    exec_info,  \* the trades_info of __print_execution_info (fiat_basis False)
    outcome,    \* "running", "frame" (DataFrame returned) or "None"
    err,        \* the exception caught at line 1385, "" when none
    lst_pnl, start_balance,  \* the arguments of get_pnl_statistics
    trades_info, \* the dictionary get_pnl_statistics returns
    venue,      \* which OHLCV function runs: "bitmex", "bybit" or "coinbase"
    start_ut, end_ut, period,  \* the arguments of the OHLCV functions
    csv,        \* the unixtime column of the cached CSV file, NoFile when absent
    df_ohlcv,   \* the unixtime column of the OHLCV DataFrame, None when unset
    cur_time, retry_count,     \* the locals of the paging loop
    lst_ohlcv,  \* the unixtime values the paging loop has collected
    ohlcv_err,  \* the exception an OHLCV function raised, "" when none
    value, round_base,  \* the arguments of round_up and round_down
    rounded     \* the object round_up or round_down returned

vars == <<pc, from_ut, buffer_days, lst_pnl, start_balance, trades_info,
          lst_execs, df_execs, cur_size, cur_bal, calc_pos,
          pre_idx, base_idx, base_pos, base_avr, i, sum_size, avr_cost,
          exec_pl, exec_fee, pl, row, pre, lst, start_bal, ledger, result,
          exec_info, outcome, err, venue, start_ut, end_ut, period, csv,
          df_ohlcv, cur_time, retry_count, lst_ohlcv, ohlcv_err, value,
          round_base, rounded>>

NoRow == Exec(0, 0, "None", "None", 0, 0, 0, 0)

\* get_pnl_statistics has not returned, __print_execution_info has not run
NoInfo == [returned |-> FALSE]

argVars == <<from_ut, buffer_days>>
statVars == <<lst_pnl, start_balance, trades_info>>
fetchVars == <<lst_execs>>
frameVars == <<df_execs, cur_size, cur_bal, calc_pos>>
baseVars == <<pre_idx, base_idx, base_pos, base_avr>>
foldVars == <<i, sum_size, avr_cost, exec_pl, exec_fee, pl, row, pre>>
outVars == <<start_bal, ledger, result, exec_info>>
ohlcvVars == <<venue, start_ut, end_ut, period, csv, df_ohlcv, cur_time,
               retry_count, lst_ohlcv, ohlcv_err>>

\* a DataFrame of candles, by its unixtime column
DataFrame(ut) == [unixtime |-> ut]

\* no cached CSV file on disk
NoFile == [isfile |-> FALSE]

\* Python's None where a DataFrame is expected
None == [isnone |-> TRUE]

roundVars == <<value, round_base, rounded>>

BlankOhlcv ==
    /\ venue = "bitmex"
    /\ start_ut = 0
    /\ end_ut = 0
    /\ period = 1
    /\ csv = NoFile
    /\ df_ohlcv = None
    /\ cur_time = 0
    /\ retry_count = 0
    /\ lst_ohlcv = <<>>
    /\ ohlcv_err = ""

BlankRound ==
    /\ value = 0
    /\ round_base = 1
    /\ rounded = None

BlankStats ==
    /\ lst_pnl = <<>>
    /\ start_balance = 0
    /\ trades_info = NoInfo

BlankFrame ==
    /\ df_execs = <<>>
    /\ cur_size = 0
    /\ cur_bal = 0
    /\ calc_pos = <<>>
    /\ pre_idx = 0
    /\ base_idx = -1
    /\ base_pos = 0
    /\ base_avr = QZero
    /\ i = 0
    /\ sum_size = 0
    /\ avr_cost = QZero
    /\ exec_pl = QZero
    /\ exec_fee = QZero
    /\ pl = QZero
    /\ row = NoRow
    /\ pre = [sum_size |-> 0, avr_cost |-> QZero]
    /\ lst = <<>>
    /\ start_bal = QZero
    /\ ledger = <<>>
    /\ result = <<>>
    /\ exec_info = NoInfo
    /\ outcome = "running"
    /\ err = ""

BlankRun ==
    /\ BlankStats
    /\ BlankFrame
    /\ BlankOhlcv
    /\ BlankRound

Blank ==
    /\ lst_execs = <<>>
    /\ BlankRun

Init ==
    /\ pc = "fetch"
    /\ from_ut \in Times
    /\ buffer_days = DefaultBufferDays
    /\ Blank

\* The except clause at line 1385: print, fall through to `return None`.
Raise(e) ==
    /\ pc' = "done"
    /\ outcome' = "None"
    /\ err' = e

\* ------------------------------------------------------------------- fetch
\* variant: the request reaches one day further back
StartTimeDayEarlier == from_ut - DaySeconds * (buffer_days + 1)

\* start_time=int(from_ut) - 86400 * buffer_days (line 1177)
StartTime == from_ut - DaySeconds * buffer_days

\* One successful page of private_execution_list (lines 1177-1196).
FetchPage ==
    /\ pc = "fetch"
    /\ Len(lst_execs) < MaxExecs
    /\ \E e \in ApiRows(lst_execs, StartTime) : lst_execs' = Append(lst_execs, e)
    /\ UNCHANGED <<pc, argVars, statVars, ohlcvVars, roundVars, frameVars, baseVars, foldVars, lst, outVars,
                   outcome, err>>

\* ------------------------------------------------------- DataFrame (1210-1222)
\* A row whose column `col` holds text that is no number.
Malformed(id, t, col) == [exec_id |-> id, exec_time |-> t, malformed |-> col]

\* astype(float) / astype(int) of lines 1212-1217 succeed on every row
Coerces(raw) == \A k \in 1..Len(raw) : "malformed" \notin DOMAIN raw[k]

\* sort_values(by='exec_time'): rows in non-decreasing exec_time; rows of equal
\* time keep their fetch order (insertion sort, as numpy sorts short arrays).
RECURSIVE InsertByTime(_, _)
InsertByTime(s, e) ==
    IF s = <<>> THEN <<e>>
    ELSE IF s[Len(s)].exec_time <= e.exec_time THEN Append(s, e)
    ELSE Append(InsertByTime(SubSeq(s, 1, Len(s) - 1), e), s[Len(s)])

RECURSIVE SortByTime(_)
SortByTime(s) ==
    IF s = <<>> THEN <<>>
    ELSE InsertByTime(SortByTime(SubSeq(s, 1, Len(s) - 1)), s[Len(s)])

\* rows kept by a boolean mask, in order
RECURSIVE Keep(_, _)
Keep(s, keep) ==
    IF s = <<>> THEN <<>>
    ELSE LET rest == Keep(SubSeq(s, 1, Len(s) - 1), keep)
         IN  IF Len(s) \in keep THEN Append(rest, s[Len(s)]) ELSE rest

\* variant: duplicate rows are left in the frame
DuplicatesKept(s) == s

\* drop_duplicates(keep='last') over all columns: of equal rows the last stays
DropDuplicates(s) ==
    Keep(s, {k \in 1..Len(s) : \A j \in (k + 1)..Len(s) : s[j] # s[k]})

Normalize(raw) == DropDuplicates(SortByTime(raw))

\* ------------------------------------------------ position series (1233-1243)
Reverse(s) == [k \in 1..Len(s) |-> s[Len(s) + 1 - k]]

RECURSIVE CumSum(_)
CumSum(s) ==
    IF s = <<>> THEN <<>>
    ELSE LET c == CumSum(SubSeq(s, 1, Len(s) - 1))
         IN  Append(c, (IF c = <<>> THEN 0 ELSE c[Len(c)]) + s[Len(s)])

\* np.where(type == 'Trade', qty, 0) * np.where(side == 'Sell', 1, -1)
Undo(e) ==
    (IF e.exec_type = "Trade" THEN e.exec_qty ELSE 0)
        * (IF e.side = "Sell" THEN 1 ELSE -1)

CalcPos(df, size) ==
    LET d == [k \in 1..Len(df) |-> Undo(df[k])]
        c == Reverse(CumSum(Reverse(Append(d, size))))
    IN  SubSeq(c, 1, Len(c) - 1)

\* The loop ends on an empty page; the DataFrame is built, sorted and
\* deduplicated, the current position and balance are read, and the position
\* before every row is reconstructed backwards (lines 1184-1243).
BuildFrameWith(sizes, bals) ==
    /\ pc = "fetch"
    /\ IF Coerces(lst_execs)
       THEN /\ \E size \in sizes, bal \in bals :
                 LET df == Normalize(lst_execs)
                 IN  /\ df_execs' = df
                     /\ cur_size' = size
                     /\ cur_bal' = bal
                     /\ calc_pos' = CalcPos(df, size)
            /\ pc' = "base"
            /\ UNCHANGED <<outcome, err>>
       ELSE /\ Raise("ValueError")
            /\ UNCHANGED frameVars
    /\ UNCHANGED <<argVars, statVars, ohlcvVars, roundVars, fetchVars, baseVars, foldVars, lst, outVars>>

BuildFrame == BuildFrameWith(CurSizes, Balances)

\* ------------------------------------------------------ base search (1245-1269)
\* pre_idx: the last row with exec_time <= from_ut, row 0 when there is none
PreIdx(df, ut) ==
    LET pre_idxes == {k \in 0..(Len(df) - 1) : df[k + 1].exec_time <= ut}
    IN  IF pre_idxes = {} THEN 0
        ELSE CHOOSE m \in pre_idxes : \A x \in pre_idxes : x <= m

IsFlat(cp, k) == cp[k + 1] = 0
IsFlip(cp, k) == k > 0 /\ cp[k + 1] * cp[k] < 0

\* variant: the rows are searched from row 0 up to row k
ScanUp(cp, k) ==
    LET hits == {j \in 0..k : IsFlat(cp, j) \/ IsFlip(cp, j)}
        m == CHOOSE x \in hits : \A y \in hits : x <= y
    IN  IF hits = {} THEN [idx |-> -1, flip |-> FALSE]
        ELSE [idx |-> m, flip |-> ~IsFlat(cp, m)]

\* for i in range(pre_idx, -1, -1): the first i that is flat or a flip
RECURSIVE Scan(_, _)
Scan(cp, k) ==
    IF k < 0 THEN [idx |-> -1, flip |-> FALSE]
    ELSE IF IsFlat(cp, k) THEN [idx |-> k, flip |-> FALSE]
    ELSE IF IsFlip(cp, k) THEN [idx |-> k, flip |-> TRUE]
    ELSE Scan(cp, k - 1)

\* df.iloc[start:, :] with Python's negative-index rule
Iloc(df, start) ==
    LET n == Len(df)
        from == IF start < 0 THEN (IF n + start < 0 THEN 0 ELSE n + start)
                ELSE (IF start > n THEN n ELSE start)
    IN  SubSeq(df, from + 1, n)

LocateBase ==
    /\ pc = "base"
    /\ LET p == PreIdx(df_execs, from_ut)
           b == Scan(calc_pos, p)
       IN  IF df_execs = <<>>
           THEN \* calc_pos[0] on an empty array
                /\ pre_idx' = p
                /\ Raise("IndexError")
                /\ UNCHANGED <<base_idx, base_pos, base_avr, df_execs,
                               sum_size, avr_cost>>
           ELSE IF b.flip
           THEN \* base_idx and base_pos are set, then df_execs['price'],
                \* a column the frame does not have, is read (line 1261)
                /\ pre_idx' = p
                /\ base_idx' = b.idx
                /\ base_pos' = calc_pos[b.idx + 1]
                /\ Raise("KeyError")
                /\ UNCHANGED <<base_avr, df_execs, sum_size, avr_cost>>
           ELSE /\ pre_idx' = p
                /\ base_idx' = b.idx
                /\ UNCHANGED <<base_pos, base_avr>>
                /\ df_execs' = Iloc(df_execs, b.idx)
                /\ sum_size' = base_pos
                /\ avr_cost' = base_avr
                /\ pc' = "fold"
                /\ UNCHANGED <<outcome, err>>
    /\ UNCHANGED <<argVars, statVars, ohlcvVars, roundVars, fetchVars, cur_size, cur_bal, calc_pos, i,
                   exec_pl, exec_fee, pl, row, pre, lst, outVars>>

\* ------------------------------------------------------ ledger fold (1288-1344)
Signed(e) == IF e.side = "Buy" THEN e.exec_qty ELSE -e.exec_qty

\* the branch "build up the position" (lines 1302-1304)
IsIncrease(size, e) ==
    \/ size = 0
    \/ (size > 0 /\ e.side = "Buy")
    \/ (size < 0 /\ e.side = "Sell")

\* variant: the notional is added whatever the side
TempValueAdded(size, avr, e) ==
    QAdd(QMul(avr, ToQ(size)), ToQ(e.exec_value))

\* temp_value after lines 1305-1311
TempValue(size, avr, e) ==
    IF e.side = "Buy"
    THEN QAdd(QMul(avr, ToQ(size)), ToQ(e.exec_value))
    ELSE QSub(QMul(avr, ToQ(size)), ToQ(e.exec_value))

\* cost = abs(i_cost / i_size) (line 1322), i_size # 0
Cost(e) == QAbs(QDiv(ToQ(e.exec_value), ToQ(e.exec_qty)))

\* variant: the two sides of the difference exchanged
PlCostSwapped(avr, e) ==
    IF e.side = "Buy" THEN QSub(avr, Cost(e)) ELSE QSub(Cost(e), avr)

\* pl_cost (line 1323)
PlCost(avr, e) ==
    IF e.side = "Buy" THEN QSub(Cost(e), avr) ELSE QSub(avr, Cost(e))

\* variant: the whole quantity of the row closes
PlSizeWhole(size, e) == e.exec_qty

\* pl_size (line 1324)
PlSize(size, e) ==
    IF e.exec_qty <= Abs(size) THEN e.exec_qty ELSE Abs(size)

\* variant: the average cost is never reset
IsDotenNever(size, e) == FALSE

\* the position reversed ("doten") on this row (lines 1335-1336)
IsDoten(size, e) ==
    \/ (size > 0 /\ e.side = "Buy")
    \/ (size < 0 /\ e.side = "Sell")

\* variant: the fee is credited
FundingPlCredited(e) == ToQ(e.exec_fee)

\* exec_fee = -i_fee; pl = -i_fee on a Funding row (lines 1296-1297)
FundingPl(e) == QNeg(ToQ(e.exec_fee))

\* The registers after one iteration on row e; fault is the exception the
\* iteration raises, "" when it completes.
FoldRow(st, e) ==
    LET fee == ToQ(e.exec_fee) IN
    IF e.exec_type = "Funding"
    THEN [st EXCEPT !.exec_fee = FundingPl(e), !.pl = FundingPl(e)]
    ELSE IF IsIncrease(st.sum_size, e)
    THEN LET size == st.sum_size + Signed(e) IN
         IF size = 0
         THEN [st EXCEPT !.fault = "ZeroDivisionError"]
         ELSE [st EXCEPT
                  !.sum_size = size,
                  !.avr_cost = QAbs(QDiv(TempValue(st.sum_size, st.avr_cost, e),
                                         ToQ(size))),
                  !.exec_fee = QNeg(fee),
                  !.pl = QNeg(fee)]
    ELSE IF e.exec_qty = 0
    THEN [st EXCEPT !.fault = "ZeroDivisionError"]
    ELSE LET size == st.sum_size + Signed(e)
             gain == QMul(PlCost(st.avr_cost, e), ToQ(PlSize(st.sum_size, e)))
         IN  [st EXCEPT
                  !.sum_size = size,
                  !.avr_cost = IF IsDoten(size, e) THEN Cost(e) ELSE @,
                  !.exec_pl = gain,
                  !.exec_fee = QNeg(fee),
                  !.pl = QSub(gain, fee)]

Regs ==
    [sum_size |-> sum_size, avr_cost |-> avr_cost, exec_pl |-> exec_pl,
     exec_fee |-> exec_fee, pl |-> pl, fault |-> ""]

\* lines 1340-1344: what the iteration appends to the five lists
Appended(st) ==
    [pos_size |-> st.sum_size, val_per_qty |-> st.avr_cost,
     exec_pl |-> st.exec_pl, exec_fee |-> st.exec_fee, total_pl |-> st.pl]

\* one iteration of the loop at line 1288 on row e
FoldStep(e, record) ==
    LET st == FoldRow(Regs, e) IN
    /\ row' = e
    /\ pre' = [sum_size |-> sum_size, avr_cost |-> avr_cost]
    /\ IF st.fault # ""
       THEN /\ Raise(st.fault)
            /\ UNCHANGED <<i, sum_size, avr_cost, exec_pl, exec_fee, pl, lst>>
       ELSE /\ i' = i + 1
            /\ sum_size' = st.sum_size
            /\ avr_cost' = st.avr_cost
            /\ exec_pl' = st.exec_pl
            /\ exec_fee' = st.exec_fee
            /\ pl' = st.pl
            /\ lst' = IF record THEN Append(lst, Appended(st)) ELSE lst
            /\ UNCHANGED <<pc, outcome, err>>

LedgerStep ==
    /\ pc = "fold"
    /\ i < Len(df_execs)
    /\ FoldStep(df_execs[i + 1], TRUE)
    /\ UNCHANGED <<argVars, statVars, ohlcvVars, roundVars, fetchVars, frameVars, baseVars, outVars>>

\* --------------------------------------------------- output columns (1346-1388)
RECURSIVE QCumSum(_)
QCumSum(s) ==
    IF s = <<>> THEN <<>>
    ELSE LET c == QCumSum(SubSeq(s, 1, Len(s) - 1))
         IN  Append(c, QAdd(IF c = <<>> THEN QZero ELSE c[Len(c)], s[Len(s)]))

\* variant: the first cumulative value is subtracted instead of the last
StartBalFirst(bal, sums) == QSub(ToQ(bal), sums[1])

\* start_bal = cur_bal - sum_total_pl[-1] (line 1356)
StartBal(bal, sums) == QSub(ToQ(bal), sums[Len(sums)])

\* the frame after lines 1346-1369
Columns(df, l, bal) ==
    LET se == QCumSum([k \in 1..Len(l) |-> l[k].exec_pl])
        sf == QCumSum([k \in 1..Len(l) |-> l[k].exec_fee])
        sp == QCumSum([k \in 1..Len(l) |-> l[k].total_pl])
    IN  [k \in 1..Len(l) |->
            [exec_time |-> df[k].exec_time, exec_type |-> df[k].exec_type,
             side |-> df[k].side, exec_price |-> df[k].exec_price,
             exec_qty |-> df[k].exec_qty, exec_value |-> df[k].exec_value,
             pos_size |-> l[k].pos_size, val_per_qty |-> l[k].val_per_qty,
             exec_pl |-> l[k].exec_pl, exec_fee |-> l[k].exec_fee,
             total_pl |-> l[k].total_pl,
             sum_exec_pl |-> se[k], sum_exec_fee |-> sf[k],
             sum_total_pl |-> sp[k],
             balance |-> QAdd(sp[k], StartBal(bal, sp))]]

\* df_execs[df_execs['exec_time'] >= from_ut] (line 1370)
Window(rows, ut) ==
    Keep(rows, {k \in 1..Len(rows) : rows[k].exec_time >= ut})

\* __print_execution_info re-raises on a non-empty frame without a row that is
\* not Funding: np.argmin of an empty array (lines 1439, 1478-1482, 1560)
InfoRaises(rows) ==
    /\ rows # <<>>
    /\ \A k \in 1..Len(rows) : rows[k].exec_type = "Funding"

RECURSIVE QSum(_)
QSum(s) == IF s = <<>> THEN QZero ELSE QAdd(QSum(SubSeq(s, 1, Len(s) - 1)), s[Len(s)])

\* df['exec_fee'] on the returned frame: line 1366 lists 'exec_fee' twice, so
\* the label selects two columns, both the column assigned at line 1349
ExecFeeColumns(r) == <<r.exec_fee, r.exec_fee>>

\* df['exec_fee'].values.sum(): the sum of every element of the selection
\* (lines 1457-1458, 1464-1465)
FeeSum(rows) == QSum([k \in 1..Len(rows) |-> QSum(ExecFeeColumns(rows[k]))])

\* The fee entries of __print_execution_info(df_execs, fiat_basis=False):
\* nothing is computed on an empty frame (lines 1429-1431); f['trade'] is
\* taken over the rows that are not Funding, f['funding'] over the Funding
\* rows (lines 1438-1439, 1464-1465).
ExecutionInfo(rows) ==
    IF rows = <<>> THEN NoInfo
    ELSE LET df_ex == SelectSeq(rows, LAMBDA r : r.exec_type # "Funding")
             df_fr == SelectSeq(rows, LAMBDA r : r.exec_type = "Funding")
         IN  [returned |-> TRUE,
              fee |-> [trade |-> FeeSum(df_ex), funding |-> FeeSum(df_fr)]]

Finish ==
    /\ pc = "fold"
    /\ i = Len(df_execs)
    /\ LET full == Columns(df_execs, lst, cur_bal)
           win == Window(full, from_ut)
       IN  /\ ledger' = full
           /\ start_bal' = StartBal(cur_bal, [k \in 1..Len(full) |-> full[k].sum_total_pl])
           /\ IF InfoRaises(win)
              THEN /\ Raise("ValueError")
                   /\ UNCHANGED <<result, exec_info>>
              ELSE /\ result' = win
                   /\ exec_info' = ExecutionInfo(win)
                   /\ pc' = "done"
                   /\ outcome' = "frame"
                   /\ UNCHANGED err
    /\ UNCHANGED <<argVars, statVars, ohlcvVars, roundVars, fetchVars, frameVars, baseVars, foldVars, lst>>

Next ==
    \/ FetchPage
    \/ BuildFrame
    \/ LocateBase
    \/ LedgerStep
    \/ Finish

Spec == Init /\ [][Next]_vars

\* ------------------------------------------------- the ledger loop on any rows
\* The loop of line 1288 from its only entry state (base_pos = 0, base_avr = 0:
\* a flip base never reaches the loop), each iteration reading a freely chosen
\* row.  The five lists are not kept here.
FoldQtys == {0, 1, 2}
FoldValues == {1, 2, 4}
FoldFees == {-1, 0, 1}
FoldPrices == {1, 2}

FoldRows ==
    {Exec(0, 0, "Funding", "Buy", pr, 1, 1, fee) :
         pr \in FoldPrices, fee \in FoldFees}
    \cup
    {Exec(0, 0, "Trade", sd, pr, qty, val, fee) :
         sd \in {"Buy", "Sell"}, pr \in FoldPrices, qty \in FoldQtys,
         val \in FoldValues, fee \in FoldFees}
    \cup
    {Exec(0, 0, "Trade", "Buy", 100, 10, 1000, 0),
     Exec(0, 0, "Trade", "Sell", 110, 15, 1650, 0)}

InitFold ==
    /\ pc = "fold"
    /\ from_ut = 0
    /\ buffer_days = DefaultBufferDays
    /\ Blank

FoldAny ==
    /\ pc = "fold"
    /\ i < MaxFold
    /\ \E e \in FoldRows : FoldStep(e, FALSE)
    /\ UNCHANGED <<argVars, statVars, ohlcvVars, roundVars, fetchVars, frameVars, baseVars, outVars>>

NextFold == FoldAny

SpecFold == InitFold /\ [][NextFold]_vars

\* --------------------------------------------- the program on a buy-sell pair
\* The program from the end of the fetch loop on two fetched rows, a Buy of q
\* at p1 then a Sell of q at p2, fee 0 and exec_value = price * quantity, with
\* the current position equal to the net of the rows (flat before the Buy).
TripQtys == {1, 2, 3, 10}
TripPrices == {1, 2, 3, 100, 110}

TripRows ==
    {<<Exec(1, 0, "Trade", "Buy", p1, q, p1 * q, 0),
       Exec(2, 1, "Trade", "Sell", p2, q, p2 * q, 0)>> :
         q \in TripQtys, p1 \in TripPrices, p2 \in TripPrices}

InitTrip ==
    /\ pc = "fetch"
    /\ from_ut \in Times
    /\ buffer_days = DefaultBufferDays
    /\ lst_execs \in TripRows
    /\ BlankRun

TripFrame == BuildFrameWith({0}, Balances)

NextTrip ==
    \/ TripFrame
    \/ LocateBase
    \/ LedgerStep
    \/ Finish

SpecTrip == InitTrip /\ [][NextTrip]_vars

\* ------------------------------------------- the program with a short buffer
\* The program called with buffer_days 0 or 1 on an account whose executions
\* may lie before from_ut - 86400 * buffer_days; rows of exec_value 1, fee 0.
LookbackDays == {0, 1}

InitLookback ==
    /\ pc = "fetch"
    /\ from_ut \in Times
    /\ buffer_days \in LookbackDays
    /\ Blank

FetchLookback ==
    /\ pc = "fetch"
    /\ Len(lst_execs) < MaxExecs
    /\ \E e \in ApiRows(lst_execs, StartTime) :
          /\ e.exec_value = 1
          /\ e.exec_fee = 0
          /\ lst_execs' = Append(lst_execs, e)
    /\ UNCHANGED <<pc, argVars, statVars, ohlcvVars, roundVars, frameVars, baseVars, foldVars, lst,
                   outVars, outcome, err>>

NextLookback ==
    \/ FetchLookback
    \/ BuildFrame
    \/ LocateBase
    \/ LedgerStep
    \/ Finish

SpecLookback == InitLookback /\ [][NextLookback]_vars

\* --------------------------------------------- the program on malformed rows
\* The program on an account whose API rows may hold a non-numeric
\* exec_price, exec_qty or exec_fee; well-formed rows of exec_value 1, fee 0.
MalformedRows(seen) ==
    LET ids == {seen[k].exec_id : k \in 1..Len(seen)}
        next == IF ids = {} THEN 1 ELSE 1 + CHOOSE m \in ids : \A x \in ids : x <= m
    IN  {Malformed(next, t, col) :
             t \in Times, col \in {"exec_price", "exec_qty", "exec_fee"}}

FetchData ==
    /\ pc = "fetch"
    /\ Len(lst_execs) < MaxExecs
    /\ \E e \in ApiRows(lst_execs, StartTime) \cup MalformedRows(lst_execs) :
          /\ Coerces(<<e>>) => (e.exec_value = 1 /\ e.exec_fee = 0)
          /\ lst_execs' = Append(lst_execs, e)
    /\ UNCHANGED <<pc, argVars, statVars, ohlcvVars, roundVars, frameVars, baseVars, foldVars, lst,
                   outVars, outcome, err>>

NextData ==
    \/ FetchData
    \/ BuildFrame
    \/ LocateBase
    \/ LedgerStep
    \/ Finish

SpecData == Init /\ [][NextData]_vars

\* ------------------------------------------ get_pnl_statistics (1632-1735)
\* length of the PnL lists tried
MaxPnl == 3

PnlValues == {-2, -1, 0, 1, 3}
StartBalances == {0, 2, 100}
\* every list up to MaxPnl over PnlValues, and four longer or larger lists
PnlLists ==
    UNION {[1..n -> PnlValues] : n \in 0..MaxPnl}
        \cup {<<300, -150>>, <<100, 20, -30, 40>>, <<0, 20, -30, 40>>,
              <<5, -2, 3, 4, -1, 6, 7>>}

RECURSIVE Sum(_)
Sum(s) == IF s = <<>> THEN 0 ELSE Sum(SubSeq(s, 1, Len(s) - 1)) + s[Len(s)]

SeqMax(s) == CHOOSE m \in {s[k] : k \in 1..Len(s)} : \A k \in 1..Len(s) : s[k] <= m
SeqMin(s) == CHOOSE m \in {s[k] : k \in 1..Len(s)} : \A k \in 1..Len(s) : m <= s[k]

\* np_pnl.mean()
Mean(s) == Q(Sum(s), Len(s))

Sign(x) == IF x > 0 THEN 1 ELSE IF x < 0 THEN -1 ELSE 0

\* numpy's true division of arrays: x / 0 gives nan ([0, 0]), inf ([1, 0]) or
\* -inf ([-1, 0]) with a warning, no exception
NpDiv(a, b) == IF b = 0 THEN [n |-> Sign(a), d |-> 0] ELSE Q(a, b)
IsNan(r) == r.n = 0 /\ r.d = 0
\* a < b for values that are not nan
NpLess(a, b) == a.n * b.d < b.n * a.d

\* np_cumsum = np_pnl.cumsum() + start_balance (line 1683)
NpCumsum(pnl, start) == [k \in 1..Len(pnl) |-> CumSum(pnl)[k] + start]

\* np.maximum.accumulate (line 1684)
NpMaxacc(c) == [k \in 1..Len(c) |-> SeqMax(SubSeq(c, 1, k))]

\* np_dd = np_cumsum - np_maxacc (line 1685)
NpDd(c) == [k \in 1..Len(c) |-> c[k] - NpMaxacc(c)[k]]

\* variant: the drawdown is divided by the balance itself
NpDdRatioOfBalance(c) == [k \in 1..Len(c) |-> NpDiv(NpDd(c)[k], c[k])]

\* np_dd_ratio = np_dd / (np_cumsum - np_dd) (line 1686)
NpDdRatio(c) == [k \in 1..Len(c) |-> NpDiv(NpDd(c)[k], c[k] - NpDd(c)[k])]

\* variant: of equal minima the last index is taken
ArgMinLast(r) ==
    LET nans == {k \in 1..Len(r) : IsNan(r[k])}
        mins == {k \in 1..Len(r) : \A j \in 1..Len(r) : ~NpLess(r[j], r[k])}
        at == IF nans # {} THEN nans ELSE mins
    IN  (CHOOSE m \in at : \A x \in at : x <= m) - 1

\* np.argmin (line 1687): the 0-based index of the first minimum, of the
\* first nan when there is one
ArgMin(r) ==
    LET nans == {k \in 1..Len(r) : IsNan(r[k])}
        mins == {k \in 1..Len(r) : \A j \in 1..Len(r) : ~NpLess(r[j], r[k])}
        at == IF nans # {} THEN nans ELSE mins
    IN  (CHOOSE m \in at : \A x \in at : m <= x) - 1

\* variant: the quotient keeps its sign
ProfitFactorSigned(p, l) == IF l # 0 THEN Q(p, l) ELSE QZero

\* if loss['sum'] != 0: trades['pf'] = abs(profit['sum'] / loss['sum'])
\* (lines 1711-1712); pf stays 0 otherwise
ProfitFactor(p, l) == IF l # 0 THEN QAbs(Q(p, l)) ELSE QZero

\* variant: the zero entries stay in the series
NpNonzeroKept(pnl) == pnl

\* np_nonzero = np_pnl[np_pnl != 0] (line 1715)
NpNonzero(pnl) == SelectSeq(pnl, LAMBDA x : x # 0)

\* itertools.groupby(s, key=lambda x: x > 0): the maximal blocks of adjacent
\* elements with the same key, in order (line 1717)
RECURSIVE GroupBy(_)
GroupBy(s) ==
    IF s = <<>> THEN <<>>
    ELSE LET g == GroupBy(SubSeq(s, 1, Len(s) - 1))
             x == s[Len(s)]
         IN  IF g # <<>> /\ ((g[Len(g)][1] > 0) <=> (x > 0))
             THEN [g EXCEPT ![Len(g)] = Append(@, x)]
             ELSE Append(g, <<x>>)

\* variant: of the longest blocks the last one is taken
IdxMaxLast(counts) ==
    CHOOSE m \in 1..Len(counts) :
        /\ \A k \in 1..Len(counts) : counts[k] <= counts[m]
        /\ \A k \in (m + 1)..Len(counts) : counts[k] < counts[m]

\* Series.idxmax(): the first place of the greatest value (lines 1721, 1727)
IdxMax(counts) ==
    CHOOSE m \in 1..Len(counts) :
        /\ \A k \in 1..Len(counts) : counts[k] <= counts[m]
        /\ \A k \in 1..(m - 1) : counts[k] < counts[m]

\* maxlen_count and maxlen_sum of the blocks whose key is `win`
\* (lines 1719-1729); both stay 0 when there is no such block
MaxLen(pnl, win) ==
    LET group_sum == SelectSeq(GroupBy(NpNonzero(pnl)),
                               LAMBDA g : (g[1] > 0) <=> win)
        counts == [k \in 1..Len(group_sum) |-> Len(group_sum[k])]
    IN  IF group_sum = <<>> THEN [count |-> 0, sum |-> 0]
        ELSE [count |-> counts[IdxMax(counts)],
              sum |-> Sum(group_sum[IdxMax(counts)])]

\* the dictionary of lines 1634-1664
ZeroInfo ==
    [returned |-> TRUE,
     i |-> 0,
     trades |-> [pf |-> QZero, count |-> 0, sum |-> 0, mean |-> QZero,
                 maxdd |-> 0, maxdd_ratio |-> QZero, start_balance |-> 0,
                 end_balance |-> 0, balance_ratio |-> QZero],
     profit |-> [ratio |-> QZero, count |-> 0, sum |-> 0, max |-> 0,
                 mean |-> QZero, maxlen_count |-> 0, maxlen_sum |-> 0],
     loss |-> [ratio |-> QZero, count |-> 0, sum |-> 0, max |-> 0,
               mean |-> QZero, maxlen_count |-> 0, maxlen_sum |-> 0]]

\* the value get_pnl_statistics returns (lines 1666-1731); i is the local
\* index of line 1687
PnlStatistics(pnl, start) ==
    IF Len(pnl) < 1 THEN ZeroInfo
    ELSE
    LET np_profit == SelectSeq(pnl, LAMBDA x : x > 0)
        np_loss == SelectSeq(pnl, LAMBDA x : x < 0)
        np_cumsum == NpCumsum(pnl, start)
        np_dd == NpDd(np_cumsum)
        np_dd_ratio == NpDdRatio(np_cumsum)
        idx == ArgMin(np_dd_ratio)
        end == np_cumsum[Len(pnl)]
        len_p == Len(np_profit)
        len_l == Len(np_loss)
        profit == [ratio |-> IF len_p + len_l > 0
                             THEN Q(len_p, len_p + len_l) ELSE QZero,
                   count |-> len_p,
                   sum |-> Sum(np_profit),
                   max |-> IF len_p > 0 THEN SeqMax(np_profit) ELSE 0,
                   mean |-> IF len_p > 0 THEN Mean(np_profit) ELSE QZero,
                   maxlen_count |-> MaxLen(pnl, TRUE).count,
                   maxlen_sum |-> MaxLen(pnl, TRUE).sum]
        loss == [ratio |-> IF len_p + len_l > 0
                           THEN Q(len_l, len_p + len_l) ELSE QZero,
                 count |-> len_l,
                 sum |-> Sum(np_loss),
                 max |-> IF len_l > 0 THEN SeqMin(np_loss) ELSE 0,
                 mean |-> IF len_l > 0 THEN Mean(np_loss) ELSE QZero,
                 maxlen_count |-> MaxLen(pnl, FALSE).count,
                 maxlen_sum |-> MaxLen(pnl, FALSE).sum]
    IN  [returned |-> TRUE,
         i |-> idx,
         trades |-> [pf |-> ProfitFactor(profit.sum, loss.sum),
                     count |-> Len(pnl),
                     sum |-> Sum(pnl),
                     mean |-> Mean(pnl),
                     maxdd |-> np_dd[idx + 1],
                     maxdd_ratio |-> np_dd_ratio[idx + 1],
                     start_balance |-> start,
                     end_balance |-> end,
                     balance_ratio |-> IF start > 0 THEN Q(end - start, start)
                                       ELSE QZero],
         profit |-> profit,
         loss |-> loss]

InitStats ==
    /\ pc = "stats"
    /\ from_ut = 0
    /\ buffer_days = DefaultBufferDays
    /\ lst_execs = <<>>
    /\ BlankFrame
    /\ BlankOhlcv
    /\ BlankRound
    /\ lst_pnl \in PnlLists
    /\ start_balance \in StartBalances
    /\ trades_info = NoInfo

\* One call of get_pnl_statistics(lst_pnl, start_balance).
GetPnlStatistics ==
    /\ pc = "stats"
    /\ trades_info' = PnlStatistics(lst_pnl, start_balance)
    /\ pc' = "returned"
    /\ UNCHANGED <<argVars, ohlcvVars, roundVars, lst_pnl, start_balance, fetchVars, frameVars,
                   baseVars, foldVars, lst, outVars, outcome, err>>

NextStats == GetPnlStatistics

SpecStats == InitStats /\ [][NextStats]_vars

\* ------------------------------------------- OHLCV paging loops (171-208 etc.)
MaxPages == 3
MaxCandles == 4

BitmexLimit == 10000
BybitLimit == 200
CoinbaseLimit == 300
RetryLimit == 5

Venues == {"bitmex", "bybit", "coinbase"}
Periods == {1, 5}

\* period * 60: the seconds of one candle
Step(p) == p * 60

\* add_time: the seconds one request spans
AddTime(v, p) ==
    CASE v = "bitmex" -> Step(p) * BitmexLimit
      [] v = "bybit" -> Step(p) * BybitLimit
      [] v = "coinbase" -> Step(p) * CoinbaseLimit

\* The candles the exchange holds: a few at the start of every request span,
\* none in between.
Candles(v, p) ==
    {k * AddTime(v, p) + d * Step(p) : k \in 0..MaxPages, d \in 0..MaxCandles}

\* the numbers of a set in ascending order
Ascending(set) ==
    [r \in 1..Cardinality(set) |->
        CHOOSE x \in set : Cardinality({y \in set : y < x}) = r - 1]

Min(a, b) == IF a < b THEN a ELSE b

\* cur_time before the first request
FirstTime(v, s, p) == IF v = "coinbase" THEN s - Step(p) ELSE s

ToTime(v, cur, e, p) == Min(cur + AddTime(v, p), e)

\* variant: the next request starts one candle before this one
NextTimeBack(v, cur, e, p) == cur - Step(p)

\* cur_time after a successful request
NextTime(v, cur, e, p) ==
    IF v = "bitmex" THEN ToTime(v, cur, e, p) + (Step(p) + 1)
    ELSE ToTime(v, cur, e, p)

\* The unixtime values of one response. bitmex and coinbase answer the candles
\* of [from, to]; bybit answers the first `limit` candles from `from` on.
PageRows(v, cur, e, p) ==
    IF v = "bybit"
    THEN LET from == Ascending({t \in Candles(v, p) : t >= cur})
         IN  SubSeq(from, 1, Min(Len(from), BybitLimit))
    ELSE Ascending({t \in Candles(v, p) : cur <= t /\ t <= ToTime(v, cur, e, p)})

\* the place of s[k] in s sorted by value, equal values in their order
Rank(s, k) ==
    Cardinality({j \in 1..Len(s) : s[j] < s[k] \/ (s[j] = s[k] /\ j < k)}) + 1

\* sort_values(by='unixtime', ascending=True)
SortUt(s) ==
    [r \in 1..Len(s) |-> s[CHOOSE k \in 1..Len(s) : Rank(s, k) = r]]

\* the rows of s at the positions of a boolean mask, in order
Masked(s, mask) == [r \in 1..Cardinality(mask) |-> s[Ascending(mask)[r]]]

\* drop_duplicates(keep='first', subset='unixtime')
DropDuplicateUt(s) ==
    Masked(s, {k \in 1..Len(s) : \A j \in 1..(k - 1) : s[j] # s[k]})

\* df[(df['unixtime'] >= start_ut) & (df['unixtime'] < end_ut)]
InRange(s, from, to) ==
    Masked(s, {k \in 1..Len(s) : s[k] >= from /\ s[k] < to})

\* The DataFrame built after the loop: bitmex filters only; bybit and coinbase
\* sort, drop duplicates and filter when there is any row.
Frame(v, rows, s, e) ==
    IF v = "bitmex" THEN DataFrame(InRange(rows, s, e))
    ELSE IF Len(rows) > 0
    THEN DataFrame(InRange(DropDuplicateUt(SortUt(rows)), s, e))
    ELSE DataFrame(rows)

PagingEnds(v, p) ==
    {k * AddTime(v, p) + d * Step(p) : k \in 0..(MaxPages - 1), d \in {1, 2}}

InitPaging ==
    /\ pc = "page"
    /\ from_ut = 0
    /\ buffer_days = DefaultBufferDays
    /\ lst_execs = <<>>
    /\ BlankStats
    /\ BlankFrame
    /\ BlankRound
    /\ venue \in Venues
    /\ period \in Periods
    /\ start_ut \in {0, Step(period)}
    /\ end_ut \in {e \in PagingEnds(venue, period) : start_ut < e}
    /\ csv = NoFile
    /\ df_ohlcv = None
    /\ cur_time = FirstTime(venue, start_ut, period)
    /\ retry_count = 0
    /\ lst_ohlcv = <<>>
    /\ ohlcv_err = ""

restVars == <<argVars, statVars, roundVars, fetchVars, frameVars, baseVars, foldVars, lst,
              outVars, outcome, err>>

\* One pass of the try block: the request succeeds.
PageOk ==
    /\ pc = "page"
    /\ cur_time < end_ut
    /\ lst_ohlcv' = lst_ohlcv \o PageRows(venue, cur_time, end_ut, period)
    /\ cur_time' = NextTime(venue, cur_time, end_ut, period)
    /\ UNCHANGED <<pc, venue, start_ut, end_ut, period, csv, df_ohlcv,
                   retry_count, ohlcv_err, restVars>>

\* One pass of the except clause: the request raised.
PageFail ==
    /\ pc = "page"
    /\ cur_time < end_ut
    /\ IF retry_count > RetryLimit
       THEN /\ pc' = "raised"
            /\ ohlcv_err' = "Exception"
            /\ UNCHANGED retry_count
       ELSE /\ retry_count' = retry_count + 1
            /\ UNCHANGED <<pc, ohlcv_err>>
    /\ UNCHANGED <<venue, start_ut, end_ut, period, csv, df_ohlcv, cur_time,
                   lst_ohlcv, restVars>>

\* The loop condition fails: build the DataFrame and return it.
PageReturn ==
    /\ pc = "page"
    /\ ~(cur_time < end_ut)
    /\ df_ohlcv' = Frame(venue, lst_ohlcv, start_ut, end_ut)
    /\ pc' = "paged"
    /\ UNCHANGED <<venue, start_ut, end_ut, period, csv, cur_time, retry_count,
                   lst_ohlcv, ohlcv_err, restVars>>

NextPaging == PageOk \/ PageFail \/ PageReturn

SpecPaging == InitPaging /\ [][NextPaging]_vars

\* Each pass of the while loop runs to its end: the request returns or raises
\* within its timeout (timeout=10), and the sleeps are finite.
SpecPagingFair == SpecPaging /\ WF_vars(PageOk \/ PageFail)

\* ------------------------------------------ get_ohlcv_from_<venue> (112-169)
\* The rows the paging loop collects when every request succeeds.
RECURSIVE Paged(_, _, _, _)
Paged(v, cur, e, p) ==
    IF cur < e
    THEN PageRows(v, cur, e, p) \o Paged(v, NextTime(v, cur, e, p), e, p)
    ELSE <<>>

\* __request_ohlcv_from_<venue>(s, e, period) when it returns
RequestOhlcv(v, s, e, p) == Frame(v, Paged(v, FirstTime(v, s, p), e, p), s, e)

RECURSIVE Concat(_)
Concat(dfs) ==
    IF dfs = <<>> THEN <<>>
    ELSE Concat(SubSeq(dfs, 1, Len(dfs) - 1)) \o dfs[Len(dfs)].unixtime

\* concat_df(lst_df, sort_column='unixtime'): None for fewer than two frames
ConcatDf(dfs) ==
    IF Len(dfs) < 2 THEN None ELSE DataFrame(SortUt(Concat(dfs)))

\* The try block at lines 119-150 on an existing file: the value of df after it.
\* An exception inside it is swallowed and leaves df as last assigned.
ReadCsv(okHead, okTail) ==
    LET ut == csv.unixtime
        len_csv == Len(ut)
        needHead == start_ut < ut[1]
        needTail == end_ut > ut[len_csv]
        lst_df == (IF needHead
                   THEN <<RequestOhlcv(venue, start_ut, ut[1], period)>>
                   ELSE <<>>)
                  \o <<csv>>
                  \o (IF needTail
                      THEN <<RequestOhlcv(venue, ut[len_csv], end_ut, period)>>
                      ELSE <<>>)
        joined == ConcatDf(lst_df)
    IN  IF ~(len_csv > 1) THEN csv
        ELSE IF ut[2] - ut[1] # period * 60 THEN csv
        ELSE IF (needHead /\ ~okHead) \/ (needTail /\ ~okTail) THEN csv
        ELSE IF joined = None THEN None
        ELSE DataFrame(InRange(DropDuplicateUt(joined.unixtime), start_ut, end_ut))

CsvTimes == {k * 60 : k \in 0..MaxCandles}

\* cached files: empty, a single row, or rows one or two minutes apart
CsvFiles ==
    {NoFile, DataFrame(<<>>)}
    \cup {DataFrame(<<t>>) : t \in CsvTimes}
    \cup {DataFrame(<<t, t + d>>) : t \in CsvTimes, d \in {60, 120}}
    \cup {DataFrame(<<t, t + 60, t + 120>>) : t \in CsvTimes}

InitOhlcv ==
    /\ pc = "ohlcv"
    /\ from_ut = 0
    /\ buffer_days = DefaultBufferDays
    /\ lst_execs = <<>>
    /\ BlankStats
    /\ BlankFrame
    /\ BlankRound
    /\ venue \in Venues
    /\ period = 1
    /\ start_ut \in CsvTimes
    /\ end_ut \in {e \in CsvTimes : start_ut < e}
    /\ csv \in CsvFiles
    /\ df_ohlcv = None
    /\ cur_time = 0
    /\ retry_count = 0
    /\ lst_ohlcv = <<>>
    /\ ohlcv_err = ""

\* One call of get_ohlcv_from_<venue>(start_ut, end_ut, period) with the default
\* csv_path; okHead, okTail, okAll tell which of its requests return.
GetOhlcv(okHead, okTail, okAll) ==
    /\ pc = "ohlcv"
    /\ LET len_csv == IF csv = NoFile THEN 0 ELSE Len(csv.unixtime)
           cached == IF csv = NoFile THEN None ELSE ReadCsv(okHead, okTail)
           d == IF cached = None \/ Len(cached.unixtime) < 1
                THEN IF okAll
                     THEN RequestOhlcv(venue, start_ut, end_ut, period)
                     ELSE cached
                ELSE cached
       IN  /\ df_ohlcv' = d
           /\ IF d = None
              THEN /\ ohlcv_err' = "TypeError"
                   /\ pc' = "raised"
                   /\ UNCHANGED csv
              ELSE /\ csv' = IF Len(d.unixtime) > len_csv THEN d ELSE csv
                   /\ IF Len(d.unixtime) = 0
                      THEN ohlcv_err' = "IndexError" /\ pc' = "raised"
                      ELSE ohlcv_err' = "" /\ pc' = "returned"
    /\ UNCHANGED <<venue, start_ut, end_ut, period, cur_time, retry_count,
                   lst_ohlcv, restVars>>

NextOhlcv == \E okHead, okTail, okAll \in BOOLEAN : GetOhlcv(okHead, okTail, okAll)

SpecOhlcv == InitOhlcv /\ [][NextOhlcv]_vars

\* ------------------------------------------- round_down, round_up (745-819)
MaxValue == 7
MaxBase == 4

\* an int as a returned object
PyInt(n) == [int |-> n]

\* round_down(value, round_base) on an int value and an int round_base
round_down(v, base) ==
    IF base < 1 THEN None ELSE PyInt((v \div base) * base)

\* round_up(value, round_base) on an int value and an int round_base
round_up(v, base) ==
    IF base < 1 THEN None ELSE PyInt((v \div base) * base + base)

InitRound ==
    /\ pc = "round"
    /\ from_ut = 0
    /\ buffer_days = DefaultBufferDays
    /\ lst_execs = <<>>
    /\ BlankStats
    /\ BlankFrame
    /\ BlankOhlcv
    /\ value \in (-MaxValue)..MaxValue
    /\ round_base \in (-1)..MaxBase
    /\ rounded = None

RoundDown ==
    /\ pc = "round"
    /\ rounded' = round_down(value, round_base)
    /\ pc' = "round_down"
    /\ UNCHANGED <<value, round_base, ohlcvVars, argVars, statVars, fetchVars,
                   frameVars, baseVars, foldVars, lst, outVars, outcome, err>>

RoundUp ==
    /\ pc = "round"
    /\ rounded' = round_up(value, round_base)
    /\ pc' = "round_up"
    /\ UNCHANGED <<value, round_base, ohlcvVars, argVars, statVars, fetchVars,
                   frameVars, baseVars, foldVars, lst, outVars, outcome, err>>

NextRound == RoundDown \/ RoundUp

SpecRound == InitRound /\ [][NextRound]_vars

\* ================================================================== claims
\* the last iteration completed on `row`, from the registers `pre`
Stepped == i > 0 /\ err # "ZeroDivisionError"
IsTrade == row.exec_type = "Trade"
Long == pre.sum_size > 0
Short == pre.sum_size < 0
Reducing ==
    /\ Stepped
    /\ IsTrade
    /\ (Long /\ row.side = "Sell") \/ (Short /\ row.side = "Buy")
Increasing ==
    /\ Stepped
    /\ IsTrade
    /\ pre.sum_size = 0 \/ (Long /\ row.side = "Buy") \/ (Short /\ row.side = "Sell")
Flipping == Reducing /\ row.exec_qty > Abs(pre.sum_size)
Closed == IF row.exec_qty <= Abs(pre.sum_size) THEN row.exec_qty ELSE Abs(pre.sum_size)
RowFee == ToQ(row.exec_fee)
RowPrice == ToQ(row.exec_price)
\* |notional / quantity| of the row (quantity # 0)
RowUnitValue == Q(Abs(row.exec_value), row.exec_qty)

C2_AsStated ==
    /\ Flipping =>
         /\ sum_size = pre.sum_size + Signed(row)
         /\ avr_cost = RowPrice
    /\ (Reducing /\ ~Flipping) => avr_cost = pre.avr_cost

\* C2 amended: a reducing fill larger than |size| moves size by the full signed
\* quantity and resets avg_cost to |notional / quantity| of that fill, which is
\* its execution price when notional = price * quantity; [Buy 10@100,
\* Sell 15@110] from flat ends with size -5 and avg_cost 110; a reducing fill
\* that does not flip the sign leaves avg_cost unchanged.
C2_FlipResets ==
    /\ Flipping =>
         /\ sum_size = pre.sum_size + Signed(row)
         /\ avr_cost = RowUnitValue
         /\ row.exec_value = row.exec_price * row.exec_qty => avr_cost = RowPrice
    /\ (Reducing /\ ~Flipping) => avr_cost = pre.avr_cost
    /\ ( /\ Stepped
         /\ pre = [sum_size |-> 10, avr_cost |-> ToQ(100)]
         /\ row = Exec(0, 0, "Trade", "Sell", 110, 15, 1650, 0) )
       => (sum_size = -5 /\ avr_cost = ToQ(110))

\* Sell 15@110 has just been folded on the long 10@100 opened from flat
C2_Witness ==
    /\ Flipping
    /\ i = 2
    /\ pre = [sum_size |-> 10, avr_cost |-> ToQ(100)]
    /\ row = Exec(0, 0, "Trade", "Sell", 110, 15, 1650, 0)

\* C3: on an opening or same-direction Trade fill the new size is the old size
\* plus the signed quantity, the new avg_cost is
\* |(old_avg_cost * old_size +/- notional) / new_size| (+ for Buy, - for Sell)
\* and the entry's PnL is exactly -fee.
C3_Increase ==
    Increasing =>
        /\ sum_size = pre.sum_size + Signed(row)
        /\ avr_cost =
             QAbs(QDiv(IF row.side = "Buy"
                       THEN QAdd(QMul(pre.avr_cost, ToQ(pre.sum_size)),
                                 ToQ(row.exec_value))
                       ELSE QSub(QMul(pre.avr_cost, ToQ(pre.sum_size)),
                                 ToQ(row.exec_value)),
                       ToQ(sum_size)))
        /\ pl = QNeg(RowFee)

\* a short position enlarged by a Sell at another unit value, with a fee
C3_Witness ==
    /\ Increasing
    /\ Short
    /\ avr_cost # pre.avr_cost
    /\ row.exec_fee # 0

\* C4: a Funding fill leaves the running size and avg_cost unchanged and its
\* entry's PnL is exactly -fee.
C4_Funding ==
    (Stepped /\ row.exec_type = "Funding") =>
        /\ sum_size = pre.sum_size
        /\ avr_cost = pre.avr_cost
        /\ pl = QNeg(RowFee)

\* a Funding fill with a fee folded while a position is open
C4_Witness ==
    /\ Stepped
    /\ row.exec_type = "Funding"
    /\ pre.sum_size # 0
    /\ row.exec_fee # 0
    /\ sum_size = pre.sum_size

\* the buy-sell pair has been folded and the frame returned
TripDone == pc = "done" /\ outcome = "frame" /\ Len(ledger) = 2
TripQty == lst_execs[1].exec_qty
TripBuy == lst_execs[1].exec_price
TripSell == lst_execs[2].exec_price

Fills == Normalize(lst_execs)
\* the base search has run on a frame that is not empty
Searched == pc \in {"fold", "done"} /\ err # "IndexError"
\* the reconstructed position before row k is flat, or of the sign opposite to
\* the one before row k - 1
FlatAt(k) == calc_pos[k + 1] = 0
FlipAt(k) ==
    /\ k > 0
    /\ \/ (calc_pos[k + 1] > 0 /\ calc_pos[k] < 0)
       \/ (calc_pos[k + 1] < 0 /\ calc_pos[k] > 0)
\* the last fill at or before the window start, row 0 when there is none
StartRow ==
    LET at == {k \in 0..(Len(Fills) - 1) : Fills[k + 1].exec_time <= from_ut}
    IN  IF at = {} THEN 0 ELSE CHOOSE m \in at : \A x \in at : x <= m
NoAnchor == \A k \in 0..StartRow : ~FlatAt(k) /\ ~FlipAt(k)
\* running sum of the per-entry PnL of rows 1..k
RECURSIVE PnlUpTo(_, _)
PnlUpTo(rows, k) ==
    IF k = 0 THEN QZero ELSE QAdd(PnlUpTo(rows, k - 1), rows[k].total_pl)

\* C6: for every ledger entry k, balance[k] = start_balance + cumulative PnL[k]
\* with start_balance = current balance - cumulative PnL[last]; the last entry's
\* balance is the snapshot's current balance and the last cumulative PnL is
\* final balance - start balance; the same holds of the returned rows.
C6_Balance ==
    (pc = "done" /\ ledger # <<>>) =>
        LET n == Len(ledger) IN
        /\ start_bal = QSub(ToQ(cur_bal), ledger[n].sum_total_pl)
        /\ \A k \in 1..n :
             ledger[k].balance = QAdd(start_bal, ledger[k].sum_total_pl)
        /\ ledger[n].balance = ToQ(cur_bal)
        /\ ledger[n].sum_total_pl = QSub(ledger[n].balance, start_bal)
        /\ (outcome = "frame" /\ result # <<>>) =>
             /\ result[Len(result)].balance = ToQ(cur_bal)
             /\ \A k \in 1..Len(result) :
                  result[k].balance = QAdd(start_bal, result[k].sum_total_pl)

\* a returned ledger of two entries whose second entry has a PnL
C6_Witness ==
    /\ pc = "done"
    /\ outcome = "frame"
    /\ Len(ledger) = 2
    /\ Len(result) = 2
    /\ ledger[2].total_pl # QZero
    /\ ledger[1].total_pl # QZero

\* C7: in the returned ledger the cumulative PnL at every index k is the sum of
\* the per-entry PnL of the returned entries up to k.
C7_AsStated ==
    outcome = "frame" =>
        \A k \in 1..Len(result) : result[k].sum_total_pl = PnlUpTo(result, k)

\* C8: the search starts at the last fill at or before the window start and
\* the base it selects is the greatest row at or below that start whose
\* reconstructed position is flat or flipped; no row between them is either.
C8_BaseSelection ==
    Searched =>
        /\ pre_idx = StartRow
        /\ (\E k \in 1..Len(Fills) : Fills[k].exec_time <= from_ut) =>
             /\ Fills[pre_idx + 1].exec_time <= from_ut
             /\ \A k \in (pre_idx + 2)..Len(Fills) : Fills[k].exec_time > from_ut
        /\ base_idx >= 0 =>
             /\ base_idx <= pre_idx
             /\ FlatAt(base_idx) \/ FlipAt(base_idx)
             /\ \A k \in (base_idx + 1)..pre_idx : ~FlatAt(k) /\ ~FlipAt(k)
        /\ base_idx < 0 => NoAnchor

\* a flat base found one row before the start row, and the frame returned
C8_Witness ==
    /\ Searched
    /\ outcome = "frame"
    /\ pre_idx = 1
    /\ base_idx = 0
    /\ FlatAt(0)
    /\ ~FlatAt(1)

\* C9: with no flat and no flip point at or before the window start the call
\* signals AnchorNotFoundError and returns no ledger.
C9_AsStated ==
    (pc = "done" /\ Fills # <<>> /\ NoAnchor) =>
        /\ outcome = "None"
        /\ err = "AnchorNotFoundError"

\* C10: when no base is found and a ledger is still built, the fold covers
\* every normalized fill from the first one onward.
C10_AsStated ==
    (pc = "done" /\ outcome = "frame" /\ NoAnchor) =>
        /\ Len(ledger) = Len(Fills)
        /\ \A k \in 1..Len(ledger) : ledger[k].exec_time = Fills[k].exec_time

\* C11: when the base the search selects is a flip base the call completes
\* and the fold starts with the position just after the flipping fill as its
\* size and the execution price of the fill on which the position reversed as
\* its average cost.
C11_AsStated ==
    (pc = "done" /\ Searched /\ base_idx > 0
        /\ FlipAt(base_idx) /\ ~FlatAt(base_idx)) =>
        /\ err # "KeyError"
        /\ base_pos = calc_pos[base_idx + 1]
        /\ base_avr = ToQ(Fills[base_idx].exec_price)
        /\ i >= 1

\* C12: whenever a base is found, folding the fills from the base row to the
\* last fill (Buy adds and Sell subtracts the Trade quantity, Funding adds
\* nothing) from the base's starting size ends with a running size equal to
\* the current signed size of the position snapshot.
C12_AsStated ==
    (pc = "done" /\ Searched /\ base_idx >= 0) =>
        /\ ledger # <<>>
        /\ i = Len(df_execs)
        /\ ledger[Len(ledger)].pos_size = cur_size

\* the earliest time the lookback buffer reaches
Horizon == from_ut - 86400 * buffer_days

FillOf(r) ==
    <<r.exec_time, r.exec_type, r.side, r.exec_price, r.exec_qty, r.exec_value>>
\* the normalized fills of the requested window, in order
WindowFills == SelectSeq(Fills, LAMBDA e : e.exec_time >= from_ut)

\* C14: the returned ledger has exactly one entry for every normalized fill
\* with exec_time >= from_ut, in chronological order, and no other entry,
\* wherever the base lies: also when several fills share the time from_ut and
\* when no base is found.
C14_AsStated ==
    outcome = "frame" =>
        /\ Len(result) = Len(WindowFills)
        /\ \A k \in 1..Len(result) : FillOf(result[k]) = FillOf(WindowFills[k])

\* the identifiers of a sequence of rows
IdsOf(s) == {s[k].exec_id : k \in 1..Len(s)}
\* the last place at which row e was fetched
LastSeen(e) ==
    CHOOSE m \in 1..Len(lst_execs) :
        /\ lst_execs[m] = e
        /\ \A x \in 1..Len(lst_execs) : lst_execs[x] = e => x <= m
\* net Trade quantity of the executions `ids`, each counted once
RECURSIVE NetOnce(_)
NetOnce(ids) ==
    IF ids = {} THEN 0
    ELSE LET id == CHOOSE x \in ids : TRUE
             e == lst_execs[CHOOSE k \in 1..Len(lst_execs) :
                                lst_execs[k].exec_id = id]
         IN  (IF e.exec_type = "Trade" THEN Signed(e) ELSE 0)
                 + NetOnce(ids \ {id})

HasMalformed == ~Coerces(lst_execs)

\* C16: when a fill has a non-numeric price, quantity or fee the call surfaces
\* a FatalLedgerError naming the fill, and the entries returned with it are
\* those of the fills before the bad one.
C16_AsStated ==
    (pc = "done" /\ HasMalformed) => err = "FatalLedgerError"

\* C17: while the running size is exactly zero the average cost is not read:
\* no ledger entry whose position size is zero carries a cost basis (its
\* val_per_qty is the 0 of the flat start, not the cost of a closed position).
C17_AsStated ==
    \A k \in 1..Len(ledger) :
        ledger[k].pos_size = 0 => ledger[k].val_per_qty = QZero

\* get_pnl_statistics has returned its dictionary
Returned == pc = "returned" /\ trades_info.returned
\* sum of the entries of s of the given sign (1 or -1)
RECURSIVE SumOfSign(_, _)
SumOfSign(s, sg) ==
    IF s = <<>> THEN 0
    ELSE SumOfSign(SubSeq(s, 1, Len(s) - 1), sg)
             + (IF Sign(s[Len(s)]) = sg THEN s[Len(s)] ELSE 0)

\* C18: for every PnL list the profit factor is |sum of the entries > 0 /
\* sum of the entries < 0| when the loss sum is not zero and exactly 0 when it
\* is zero, without an error; profit sum 300 and loss sum -150 give exactly 2.
C18_ProfitFactor ==
    Returned =>
        LET p == SumOfSign(lst_pnl, 1)
            l == SumOfSign(lst_pnl, -1)
        IN  /\ l # 0 => trades_info.trades.pf = QAbs(QDiv(ToQ(p), ToQ(l)))
            /\ l = 0 => trades_info.trades.pf = QZero
            /\ (p = 300 /\ l = -150) => trades_info.trades.pf = ToQ(2)

\* the statistics of [300, -150] have been returned
C18_Witness ==
    /\ Returned
    /\ lst_pnl = <<300, -150>>
    /\ trades_info.profit.sum = 300
    /\ trades_info.loss.sum = -150
    /\ trades_info.trades.pf = ToQ(2)

\* the balance series get_pnl_statistics works on, its running maximum and
\* its drawdown at place k (1-based)
BalanceAt(k) == start_balance + Sum(SubSeq(lst_pnl, 1, k))
RunMaxAt(k) ==
    CHOOSE m \in {BalanceAt(j) : j \in 1..k} : \A j \in 1..k : BalanceAt(j) <= m
DdAt(k) == BalanceAt(k) - RunMaxAt(k)
\* drawdown over running maximum, where the running maximum is not zero
RatioAt(k) == Q(DdAt(k), RunMaxAt(k))
RatiosDefined == \A k \in 1..Len(lst_pnl) : RunMaxAt(k) # 0

\* C19: the drawdown at k is balance[k] minus the running maximum up to k and
\* is never positive; the ratio is drawdown / (balance - drawdown), the
\* drawdown over the running maximum; the maximum-risk point is the index of
\* the least ratio, the first one on ties; maxdd and maxdd_ratio are the
\* drawdown and the ratio at that index.
C19_Drawdown ==
    (Returned /\ lst_pnl # <<>>) =>
        LET n == Len(lst_pnl)
            at == trades_info.i + 1
        IN  /\ at \in 1..n
            /\ \A k \in 1..n : DdAt(k) <= 0
            /\ trades_info.trades.maxdd = DdAt(at)
            /\ BalanceAt(at) - DdAt(at) = RunMaxAt(at)
            /\ RunMaxAt(at) # 0 => trades_info.trades.maxdd_ratio = RatioAt(at)
            /\ RatiosDefined =>
                 /\ \A k \in 1..n : ~NpLess(RatioAt(k), RatioAt(at))
                 /\ \A k \in 1..(at - 1) : NpLess(RatioAt(at), RatioAt(k))

\* start 2 and PnL [0, -1, 0]: the least ratio -1/2 is at indices 1 and 2 and
\* index 1 is reported
C19_Witness ==
    /\ Returned
    /\ start_balance = 2
    /\ lst_pnl = <<0, -1, 0>>
    /\ trades_info.i = 1
    /\ trades_info.trades.maxdd = -1
    /\ trades_info.trades.maxdd_ratio = Q(-1, 2)
    /\ RatioAt(2) = RatioAt(3)

\* the statistics of the balance series [100, 120, 90, 130] have been returned
ExampleSeries ==
    /\ Returned
    /\ NpCumsum(lst_pnl, start_balance) = <<100, 120, 90, 130>>

\* C20: the balance series [100, 120, 90, 130] has running maximum
\* [100, 120, 120, 130] and drawdown [0, 0, -30, 0]; the ratio at index 2 is
\* -30 / 90 and index 2 is reported as the maximum-risk point.
C20_AsStated ==
    ExampleSeries =>
        LET c == NpCumsum(lst_pnl, start_balance)
        IN  /\ NpMaxacc(c) = <<100, 120, 120, 130>>
            /\ NpDd(c) = <<0, 0, -30, 0>>
            /\ trades_info.i = 2
            /\ trades_info.trades.maxdd_ratio = Q(-30, 90)

\* C20 amended: the same series has running maximum [100, 120, 120, 130] and
\* drawdown [0, 0, -30, 0]; the ratio at index 2 is -30 / 120 = -1/4, the
\* other ratios are 0, and index 2 is reported with maxdd -30.
C20_Example ==
    ExampleSeries =>
        LET c == NpCumsum(lst_pnl, start_balance)
        IN  /\ NpMaxacc(c) = <<100, 120, 120, 130>>
            /\ NpDd(c) = <<0, 0, -30, 0>>
            /\ NpDdRatio(c) = <<QZero, QZero, Q(-30, 120), QZero>>
            /\ trades_info.i = 2
            /\ trades_info.trades.maxdd = -30
            /\ trades_info.trades.maxdd_ratio = Q(-1, 4)

\* PnL [100, 20, -30, 40] from start balance 0 has been evaluated
C20_Witness ==
    /\ ExampleSeries
    /\ lst_pnl = <<100, 20, -30, 40>>
    /\ start_balance = 0
    /\ trades_info.trades.end_balance = 130
    /\ trades_info.i = 2

\* the blocks of adjacent entries of the wanted sign (1 or -1) in series s, as
\* pairs <<first place, last place>> that cannot be extended
Blocks(s, sg) ==
    {b \in (1..Len(s)) \X (1..Len(s)) :
        /\ b[1] <= b[2]
        /\ \A k \in b[1]..b[2] : Sign(s[k]) = sg
        /\ b[1] > 1 => Sign(s[b[1] - 1]) # sg
        /\ b[2] < Len(s) => Sign(s[b[2] + 1]) # sg}
BlockLen(b) == b[2] - b[1] + 1
\* the first of the longest blocks
FirstLongest(s, sg) ==
    CHOOSE b \in Blocks(s, sg) :
        \A c \in Blocks(s, sg) :
            \/ BlockLen(c) < BlockLen(b)
            \/ (BlockLen(c) = BlockLen(b) /\ b[1] <= c[1])
\* the streak entries agree with the first longest block of sign sg in s
StreakIs(info, s, sg) ==
    IF Blocks(s, sg) = {}
    THEN info.maxlen_count = 0 /\ info.maxlen_sum = 0
    ELSE LET b == FirstLongest(s, sg)
         IN  /\ info.maxlen_count = BlockLen(b)
             /\ info.maxlen_sum = Sum(SubSeq(s, b[1], b[2]))

\* C21: the longest winning (losing) streak reported has the greatest length
\* among the runs of consecutive profitable (losing) entries of the PnL
\* series, the first such run on ties, with maxlen_sum the summed PnL of that
\* run; [5,-2,3,4,-1,6,7] reports the winning streak of length 2 and sum 7.
C21_AsStated ==
    Returned =>
        /\ StreakIs(trades_info.profit, lst_pnl, 1)
        /\ StreakIs(trades_info.loss, lst_pnl, -1)
        /\ lst_pnl = <<5, -2, 3, 4, -1, 6, 7>> =>
             /\ trades_info.profit.maxlen_count = 2
             /\ trades_info.profit.maxlen_sum = 7

\* the series without its entries that are exactly 0
NonZero == SelectSeq(lst_pnl, LAMBDA x : x # 0)

\* C21 amended: the same, the runs being those of the series from which the
\* entries that are exactly 0 have been removed.
C21_Streak ==
    Returned =>
        /\ StreakIs(trades_info.profit, NonZero, 1)
        /\ StreakIs(trades_info.loss, NonZero, -1)
        /\ lst_pnl = <<5, -2, 3, 4, -1, 6, 7>> =>
             /\ trades_info.profit.maxlen_count = 2
             /\ trades_info.profit.maxlen_sum = 7

\* the statistics of [5,-2,3,4,-1,6,7], whose winning runs [3,4] and [6,7]
\* are equally long, have been returned
C21_Witness ==
    /\ Returned
    /\ lst_pnl = <<5, -2, 3, 4, -1, 6, 7>>
    /\ trades_info.profit.maxlen_count = 2
    /\ trades_info.profit.maxlen_sum = 7
    /\ trades_info.loss.maxlen_count = 1
    /\ trades_info.loss.maxlen_sum = -2

\* the length of the longest block of adjacent entries of sign sg in s
LongestBlock(s, sg) ==
    IF Blocks(s, sg) = {} THEN 0 ELSE BlockLen(FirstLongest(s, sg))

\* C22: a reported streak is a maximal run of consecutive entries of the PnL
\* series, all > 0 or all < 0; an entry that is exactly 0 between two entries
\* of the same sign ends the run, so maxlen_count never exceeds the longest
\* block of adjacent same-sign entries of the series.
C22_AsStated ==
    Returned =>
        /\ trades_info.profit.maxlen_count <= LongestBlock(lst_pnl, 1)
        /\ trades_info.loss.maxlen_count <= LongestBlock(lst_pnl, -1)

\* C22 amended: a reported streak is a maximal run of the series without its
\* zero entries; an entry that is exactly 0 neither ends nor lengthens a run,
\* so maxlen_count is the longest block of adjacent same-sign entries of the
\* zero-free series and never exceeds the number of entries of that sign.
C22_ZeroSkipped ==
    Returned =>
        /\ trades_info.profit.maxlen_count = LongestBlock(NonZero, 1)
        /\ trades_info.loss.maxlen_count = LongestBlock(NonZero, -1)
        /\ trades_info.profit.maxlen_count <= trades_info.profit.count
        /\ trades_info.loss.maxlen_count <= trades_info.loss.count
        /\ trades_info.profit.maxlen_count >= LongestBlock(lst_pnl, 1)
        /\ trades_info.loss.maxlen_count >= LongestBlock(lst_pnl, -1)

\* [1, 0, 1]: a winning streak of length 2 and sum 2 across the zero
C22_Witness ==
    /\ Returned
    /\ lst_pnl = <<1, 0, 1>>
    /\ trades_info.profit.maxlen_count = 2
    /\ trades_info.profit.maxlen_sum = 2

\* the balance series never falls below its running maximum
AllFlat == \A k \in 1..Len(lst_pnl) : DdAt(k) = 0
\* the inputs claim C23 calls degenerate
Degenerate ==
    \/ lst_pnl = <<>>
    \/ SumOfSign(lst_pnl, -1) = 0
    \/ SumOfSign(lst_pnl, 1) = 0
    \/ AllFlat

\* C23: on an empty list, a zero loss sum, an empty profit or loss subset or
\* an all-flat balance series (a constant balance of zero included) the
\* statistics are well-defined numbers, zero where nothing was measured, and
\* no division by zero is performed.
C23_AsStated ==
    (Returned /\ Degenerate) =>
        /\ trades_info.trades.pf.d # 0
        /\ trades_info.trades.maxdd_ratio.d # 0
        /\ SumOfSign(lst_pnl, -1) = 0 => trades_info.trades.pf = QZero
        /\ AllFlat =>
             /\ trades_info.trades.maxdd = 0
             /\ trades_info.trades.maxdd_ratio = QZero

\* the fee contributions (-fee) of the returned entries of the given kind,
\* each entry once
FeeOnce(funding) ==
    QSum([k \in 1..Len(result) |->
            IF (result[k].exec_type = "Funding") = funding
            THEN result[k].exec_fee ELSE QZero])

\* C24: in the statistics over the returned ledger the Trade-fee total is the
\* sum of the fee contributions (-fee) of the Trade entries of the window,
\* each counted once, the Funding-fee total the same sum over the Funding
\* entries, and together they are the ledger's fee contribution in the window.
C24_AsStated ==
    (outcome = "frame" /\ exec_info.returned) =>
        /\ exec_info.fee.trade = FeeOnce(FALSE)
        /\ exec_info.fee.funding = FeeOnce(TRUE)
        /\ QAdd(exec_info.fee.trade, exec_info.fee.funding)
               = QSum([k \in 1..Len(result) |-> result[k].exec_fee])

\* the rows of the returned OHLCV frame
OhlcvReturned == pc = "returned" /\ df_ohlcv # None

\* C25: whatever the cached CSV holds (absent, a single row, another period,
\* part of the range), every row get_ohlcv_from_<venue> returns satisfies
\* start_ut <= unixtime < end_ut, and the unixtime values ascend without
\* duplicates.
C25_AsStated ==
    OhlcvReturned =>
        LET ut == df_ohlcv.unixtime
        IN  /\ \A k \in 1..Len(ut) : start_ut <= ut[k] /\ ut[k] < end_ut
            /\ \A k \in 1..(Len(ut) - 1) : ut[k] < ut[k + 1]

\* the multiples of round_base near value
Multiples == {k * round_base : k \in (-(MaxValue + 1))..(MaxValue + 1)}

\* C26: for an integer value and an integer round_base >= 1, round_up returns
\* the smallest multiple of round_base that is >= value (a multiple is
\* returned unchanged) and round_down the largest multiple that is <= value;
\* for round_base < 1 both return None.
C26_AsStated ==
    /\ (pc \in {"round_up", "round_down"} /\ round_base < 1) => rounded = None
    /\ (pc = "round_down" /\ round_base >= 1) =>
          /\ rounded # None
          /\ rounded.int \in Multiples
          /\ rounded.int <= value
          /\ \A m \in Multiples : m <= value => m <= rounded.int
    /\ (pc = "round_up" /\ round_base >= 1) =>
          /\ rounded # None
          /\ rounded.int \in Multiples
          /\ rounded.int >= value
          /\ \A m \in Multiples : m >= value => m >= rounded.int

\* what the last iteration appended to the lists (lines 1340-1344)
Entry == Appended(Regs)

\* C27: on every ledger entry the recorded total PnL is the recorded price
\* PnL plus the recorded fee contribution, the fee contribution is -fee, and
\* the price PnL is 0 on every Funding entry and every position-increasing
\* entry (so the cumulative total is the sum of the two cumulative parts).
C27_AsStated ==
    Stepped =>
        /\ Entry.total_pl = QAdd(Entry.exec_pl, Entry.exec_fee)
        /\ Entry.exec_fee = QNeg(RowFee)
        /\ (row.exec_type = "Funding" \/ Increasing) => Entry.exec_pl = QZero

\* the registers at a flat anchor with no earlier history (lines 1277-1281)
FlatAnchor ==
    [sum_size |-> 0, avr_cost |-> QZero, exec_pl |-> QZero, exec_fee |-> QZero,
     pl |-> QZero, fault |-> ""]

\* the last iteration ran a Trade fill of non-zero quantity from size zero
AfterFlat == Stepped /\ IsTrade /\ pre.sum_size = 0 /\ row.exec_qty # 0

\* C28: when the running size is exactly zero before a Trade fill of non-zero
\* quantity, the avg_cost after the fill is |notional / quantity| and its PnL
\* is -fee whatever avg_cost was left by the closed position, and the entry
\* recorded is the one the same fill gives after any other history that ended
\* flat (here: the empty history).
C28_AsStated ==
    AfterFlat =>
        /\ avr_cost = RowUnitValue
        /\ pl = QNeg(RowFee)
        /\ Entry = Appended(FoldRow(FlatAnchor, row))

\* every balance of the series is below start_balance
NeverRecovers == \A k \in 1..Len(lst_pnl) : BalanceAt(k) < start_balance

\* C29: the running maximum get_pnl_statistics uses at every index is at
\* least start_balance (the initial peak), so when every balance is below
\* start_balance the reported maxdd is the lowest balance minus start_balance
\* and is negative.
C29_AsStated ==
    (Returned /\ lst_pnl # <<>>) =>
        LET c == NpCumsum(lst_pnl, start_balance)
        IN  /\ \A k \in 1..Len(c) : NpMaxacc(c)[k] >= start_balance
            /\ NeverRecovers =>
                  /\ trades_info.trades.maxdd = SeqMin(c) - start_balance
                  /\ trades_info.trades.maxdd < 0

\* the paging loop has ended: its condition is false, or it re-raised
PagingEnded == ~(cur_time < end_ut) \/ pc = "raised"

\* C30: for every sequence of request successes and failures the paging loop
\* ends, either with cur_time >= end_ut after its pages succeeded or by
\* re-raising on the 7th failed request; the retry counter is cumulative over
\* the call (a successful page does not reset it), so 6 failures are tolerated,
\* and cur_time never decreases.
C30_BoundedRetry ==
    /\ <>PagingEnded
    /\ [](pc = "paged" => (cur_time >= end_ut /\ retry_count <= 6))
    /\ [](pc = "raised" => (cur_time < end_ut /\ retry_count = 6))
    /\ [][/\ cur_time' >= cur_time
          /\ retry_count' >= retry_count
          /\ retry_count' <= retry_count + 1]_vars

\* the 7th failure re-raised after a page had succeeded
C30_Witness ==
    /\ pc = "raised"
    /\ retry_count = 6
    /\ cur_time > FirstTime(venue, start_ut, period)
    /\ lst_ohlcv # <<>>
====
